---- MODULE Spec2Model ----
(***************************************************************************)
(* The bank pipeline of the testing page (TestingPage, bank variant).      *)
(*                                                                         *)
(* React state is modelled as two records: `st` is the state committed by  *)
(* the last render (what handlers and effects created by that render see   *)
(* in their closures) and `nx` is the state the next render will commit,   *)
(* i.e. `st` with every queued setState applied in call order (functional  *)
(* updaters are applied to the queued value, plain values replace it).     *)
(* Refs are read and written immediately.  A render first flushes the      *)
(* passive effects of the previous commit, then commits `nx`; the passive  *)
(* effects of a commit run in a later step unless the render was caused by *)
(* a click, in which case they run in the same step.                       *)
(***************************************************************************)
EXTENDS Integers, Sequences, FiniteSets, TLC

\* ---------------------------------------------------------------- bounds
MaxBank == 2        \* most prompts one /api/prompts/batch answer carries
MaxCalls == 2       \* generateNewBatch calls explored in a rating session
MaxOverlap == 3     \* generateNewBatch calls explored when the user only skips
MaxMounts == 1      \* remounts of the page explored
CallBank == 5       \* slots of the banks on which advanceBank is applied directly
QueueSize == 2      \* QUEUE_SIZE of the queue variant, scaled down
MaxPrompts == 5     \* prompts the prompt source hands out to the queue variant
MaxFetches == 3     \* prompt fetches the queue variant starts

\* ---------------------------------------------------------------- values
NoPrompt == 0
NoResult == [prompt |-> 0, gen |-> -1, resp |-> FALSE]
Undef == [prompt |-> 0, status |-> "undefined", result |-> NoResult]

Terminal == {"rated", "skipped", "failed"}
Unfinished == {"generating", "ready"}

\* the k prompts the prompt source returns to the ser-th batch request
PromptsOf(ser, k) == [i \in 1..k |-> ser * 10 + i]

\* whether the generation service returns an llm_response for `prompt`
\* (data.llm_response may be empty): it does for all but the second prompt of
\* a batch
LlmAnswers(prompt) == prompt % 10 # 2

\* the result built from the answer to a request issued for `prompt`
\* with token `genId`; resp is the truthiness of its llmResponse
buildResult(prompt, genId) ==
  [prompt |-> prompt, gen |-> genId, resp |-> LlmAnswers(prompt)]

\* JavaScript truthiness of arr[i]
Exists(arr, i) == i >= 0 /\ i < Len(arr) /\ arr[i + 1] # Undef

\* arr[i] = v on a copy of arr (an index past the end leaves empty elements)
ArrSet(arr, i, v) ==
  IF i < Len(arr) THEN [arr EXCEPT ![i + 1] = v]
  ELSE arr \o [k \in 1..(i - Len(arr)) |-> Undef] \o <<v>>

Min(S) == CHOOSE x \in S : \A y \in S : x <= y

VARIABLES
  st,        \* committed React state
  nx,        \* React state with the queued updates applied
  rf,        \* refs: bankRef, bankIndexRef, lastAppliedBankIndexRef, batchGenIdRef
  fl,        \* scheduling flags of the component
  reqs,      \* generation requests in flight (firePregen)
  fetches,   \* generateNewBatch calls awaiting /api/prompts/batch
  posts,     \* submit / failure / delete requests in flight
  timers,    \* setTimeout callbacks not yet run
  head,      \* the HEAD staleness check of the initial load effect
  calls,     \* generateNewBatch calls made so far
  cap,       \* generateNewBatch calls explored in this behaviour
  mounts,    \* remounts so far
  manual,    \* sendPrompt requests in flight, each with its AbortController
  hist,      \* history: last operation, invocations per exhausted bank
  qp         \* the queue variant of the page (pages/TestingPage.jsx)

bankVars == <<st, nx, rf, fl, reqs, fetches, posts, timers, head, calls, cap, mounts,
              manual, hist>>

vars == <<st, nx, rf, fl, reqs, fetches, posts, timers, head, calls, cap, mounts,
          manual, hist, qp>>

\* ---------------------------------------------------------------- queue variant
\* cur: currentPrompt (0: null); res: the prompt whose result is displayed
\* (0: llmJson and audioUrl empty); queue / qref: promptQueue and
\* promptQueueRef.current; results / inflight: the keys of pregenResults and
\* pregenInFlight; pipes: the work list of every startPregenPipeline call with
\* the number of its workers that are not awaiting a request; gens: requests
\* of pregenOne in flight; refills: prompt fetches in flight, numbered by
\* nfetch; popped: the prompts advanceFromQueue has made current
QInit ==
  [cur |-> 0, res |-> 0, queue |-> <<>>, qref |-> <<>>, results |-> {}, inflight |-> {},
   pipes |-> <<>>, gens |-> {}, refills |-> {}, nfetch |-> 0, nextId |-> 1, started |-> FALSE,
   popped |-> {}]

\* ---------------------------------------------------------------- state
EmptyState ==
  [bank |-> <<>>, bankIndex |-> 0, currentPrompt |-> NoPrompt, shown |-> NoResult,
   freeTextMode |-> FALSE, submitting |-> FALSE, loading |-> FALSE,
   status |-> "", difficultyError |-> FALSE, generationScoreError |-> FALSE,
   llmScoreError |-> FALSE, freeTextError |-> FALSE]

\* abort is generationAbortRef: the id of the controller it holds, 0 for null
FreshRefs(b, i) ==
  [bank |-> b, bankIndex |-> i, lastApplied |-> -1, batchGenId |-> 0, abort |-> 0]

FreshFlags ==
  [dirty |-> FALSE, bankSet |-> FALSE, fx |-> TRUE, mounted |-> FALSE, crashed |-> FALSE]

NoHead == [on |-> FALSE, bank |-> <<>>]

Comp ==
  [st |-> st, nx |-> nx, rf |-> rf, fl |-> fl, fire |-> {}, gen |-> 0, head |-> head,
   manual |-> manual]

\* queue setState calls: q is the new queued state, set tells that setBank was called
Queue(c, q, set) ==
  [c EXCEPT !.nx = q,
            !.fl.bankSet = c.fl.bankSet \/ set,
            !.fl.dirty = c.fl.dirty \/ set \/ q # c.nx]

\* ---------------------------------------------------------------- firePregen
firePregen(prompt, idx, genId) == [gen |-> genId, idx |-> idx, prompt |-> prompt]

\* a token check that lets every answer through
IsStaleNever(genId, current) == FALSE

\* the token check of both continuations of firePregen
IsStale(genId, current) == current # genId

\* an updater that stores the result whatever the status of the slot
ReadyUpdaterAlways(prev, idx, res) ==
  IF Exists(prev, idx)
  THEN ArrSet(prev, idx, [prev[idx + 1] EXCEPT !.result = res, !.status = "ready"])
  ELSE prev

\* the functional setBank of the success continuation of firePregen
ReadyUpdater(prev, idx, res) ==
  IF Exists(prev, idx) /\ prev[idx + 1].status = "generating"
  THEN ArrSet(prev, idx, [prev[idx + 1] EXCEPT !.result = res, !.status = "ready"])
  ELSE prev

FailedUpdater(prev, idx) ==
  IF Exists(prev, idx) /\ prev[idx + 1].status = "generating"
  THEN ArrSet(prev, idx, [prev[idx + 1] EXCEPT !.status = "failed"])
  ELSE prev

\* ---------------------------------------------------------------- generateNewBatch
\* the synchronous part: mint the token, start the prompt fetch
generateNewBatch(c) ==
  [Queue(c, [c.nx EXCEPT !.status = "loading"], FALSE)
     EXCEPT !.rf.batchGenId = c.rf.batchGenId + 1, !.gen = c.gen + 1]

newBank(prompts) ==
  [i \in 1..Len(prompts) |-> [prompt |-> prompts[i], result |-> NoResult, status |-> "generating"]]

\* an installation that generates for the first slot only
InstallBatchFirstOnly(c, prompts, genId) ==
  LET q == [c.nx EXCEPT !.bank = newBank(prompts), !.bankIndex = 0,
                        !.currentPrompt = prompts[1], !.shown = NoResult]
      c1 == Queue(c, q, TRUE)
  IN [c1 EXCEPT !.rf.lastApplied = -1, !.fire = {firePregen(prompts[1], 0, genId)}]

\* the continuation after the prompt fetch answered with `prompts` (not empty)
InstallBatch(c, prompts, genId) ==
  LET q == [c.nx EXCEPT !.bank = newBank(prompts), !.bankIndex = 0,
                        !.currentPrompt = prompts[1], !.shown = NoResult]
      c1 == Queue(c, q, TRUE)
  IN [c1 EXCEPT !.rf.lastApplied = -1,
                !.fire = {firePregen(prompts[i], i - 1, genId) : i \in 1..Len(prompts)}]

\* ---------------------------------------------------------------- advanceBank
\* a search that always starts at the first slot
findNextUnfinishedFromStart(bankArr, afterIdx) ==
  LET all == {i \in 0..(Len(bankArr) - 1) : bankArr[i + 1].status \in Unfinished}
  IN IF all # {} THEN Min(all) ELSE -1

findNextUnfinished(bankArr, afterIdx) ==
  LET fwd == {i \in (afterIdx + 1)..(Len(bankArr) - 1) : bankArr[i + 1].status \in Unfinished}
      wrap == {i \in 0..afterIdx : i < Len(bankArr) /\ bankArr[i + 1].status \in Unfinished}
  IN IF fwd # {} THEN Min(fwd) ELSE IF wrap # {} THEN Min(wrap) ELSE -1

\* generationAbortRef.current.abort(); generationAbortRef.current = null
AbortManual(c) ==
  IF c.rf.abort = 0 THEN c
  ELSE [c EXCEPT !.manual = {[m EXCEPT !.aborted = (m.aborted \/ m.id = c.rf.abort)] :
                               m \in c.manual},
                 !.rf.abort = 0]

advanceBank(c0, markStatus) ==
  LET c == AbortManual(c0)
      curBank == c.rf.bank
      curIdx == c.rf.bankIndex
      off == [c.nx EXCEPT !.loading = FALSE]
  IN IF ~Exists(curBank, curIdx) THEN Queue(c, off, FALSE)
     ELSE LET updated == ArrSet(curBank, curIdx, [curBank[curIdx + 1] EXCEPT !.status = markStatus])
              next == findNextUnfinished(updated, curIdx)
          IN IF next # -1
             THEN Queue(c, [off EXCEPT !.bank = updated, !.bankIndex = next,
                                       !.currentPrompt = updated[next + 1].prompt,
                                       !.status = "", !.shown = NoResult], TRUE)
             ELSE generateNewBatch(Queue(c, [off EXCEPT !.bank = updated], TRUE))

\* ---------------------------------------------------------------- effects
RatingUpdater(prev, bankIndex) ==
  ArrSet(prev, bankIndex,
         IF Exists(prev, bankIndex) THEN [prev[bankIndex + 1] EXCEPT !.status = "rating"]
         ELSE [Undef EXCEPT !.status = "rating"])

\* the two effects that keep bankRef and bankIndexRef in sync (and save both)
SyncRefs(c) == [c EXCEPT !.rf.bank = c.st.bank, !.rf.bankIndex = c.st.bankIndex]

\* an apply effect that never finds a ready slot to jump to
ReadyIdxNever(bank, bankIndex) == -1

\* the index the apply effect jumps to: the first other slot that is ready, or -1
ReadyIdx(bank, bankIndex) ==
  LET r == {i \in 0..(Len(bank) - 1) : i # bankIndex /\ bank[i + 1].status = "ready"}
  IN IF r = {} THEN -1 ELSE Min(r)

\* the bank apply effect
ApplyEffect(c) ==
  LET bank == c.st.bank
      bankIndex == c.st.bankIndex
  IN IF c.st.freeTextMode \/ ~Exists(bank, bankIndex) THEN c
     ELSE IF c.rf.lastApplied = bankIndex /\ c.st.shown # NoResult THEN c
     ELSE LET item == bank[bankIndex + 1] IN
       IF item.status = "ready" /\ item.result # NoResult
       THEN LET q == [c.nx EXCEPT !.currentPrompt = item.prompt, !.shown = item.result,
                                  !.status = "generated",
                                  !.bank = RatingUpdater(c.nx.bank, bankIndex)]
            IN [Queue(c, q, TRUE) EXCEPT !.rf.lastApplied = bankIndex]
       ELSE IF item.status = "generating" /\ ReadyIdx(bank, bankIndex) # -1
       THEN Queue(c, [c.nx EXCEPT !.bankIndex = ReadyIdx(bank, bankIndex)], FALSE)
       ELSE c

\* restoreBank of the initial load effect
restoreBank(c, bank) ==
  LET curIdx == c.rf.bankIndex
      c1 == IF Exists(bank, curIdx)
            THEN Queue(c, [c.nx EXCEPT !.currentPrompt = bank[curIdx + 1].prompt], FALSE)
            ELSE c
  IN [c1 EXCEPT !.fire = {firePregen(bank[i].prompt, i - 1, c.rf.batchGenId) :
                            i \in {j \in 1..Len(bank) : bank[j].status = "generating"}}]

\* the initial load effect
InitialLoad(c) ==
  LET savedBank == c.rf.bank IN
  IF c.st.freeTextMode THEN c
  ELSE IF Len(savedBank) = 0 THEN generateNewBatch(c)
  ELSE IF \A i \in 1..Len(savedBank) : savedBank[i].status \in Terminal THEN generateNewBatch(c)
  ELSE IF \E i \in 1..Len(savedBank) :
            savedBank[i].status \in {"ready", "rating"} /\ savedBank[i].result # NoResult
  THEN [c EXCEPT !.head = [on |-> TRUE, bank |-> savedBank]]
  ELSE restoreBank(c, savedBank)

\* the passive effects of one commit, in declaration order
Effects(c) ==
  LET c1 == ApplyEffect(SyncRefs(c))
      c2 == IF c.fl.mounted THEN c1 ELSE InitialLoad(c1)
  IN [c2 EXCEPT !.fl.fx = FALSE, !.fl.mounted = TRUE]

\* one render: pending passive effects first, then the queued state is committed
Render(c) ==
  LET p == IF c.fl.fx THEN Effects(c) ELSE c
      deps == p.fl.bankSet \/ p.nx.bankIndex # p.st.bankIndex
              \/ p.nx.freeTextMode # p.st.freeTextMode \/ p.nx.shown # p.st.shown
  IN [p EXCEPT !.st = p.nx,
               !.fl.dirty = FALSE, !.fl.bankSet = FALSE, !.fl.fx = deps,
               !.fl.crashed = \E i \in 1..Len(p.nx.bank) : p.nx.bank[i] = Undef]

\* a click: the handler's updates are rendered and their effects run at once
Click(c) ==
  IF ~c.fl.dirty THEN c
  ELSE LET r == Render(c) IN IF r.fl.fx /\ ~r.fl.crashed THEN Effects(r) ELSE r

\* ---------------------------------------------------------------- handlers
\* loadNextPrompt, the Skip Prompt button
loadNextPrompt(c) == advanceBank(c, "skipped")

\* what the rating form holds when a button is pressed: whether each score and
\* the difficulty are set, and whether an attachment file is pending
Forms == [quality : BOOLEAN, accuracy : BOOLEAN, difficulty : BOOLEAN, file : BOOLEAN]
FullForm == [quality |-> TRUE, accuracy |-> TRUE, difficulty |-> TRUE, file |-> FALSE]

\* a request of the submit flow, and the timer of a setTimeout; prompt is the
\* prompt id the request carries (filled in where the request is sent)
Post(kind, free) == [kind |-> kind, free |-> free, path |-> 0, prompt |-> NoPrompt]
Tm(kind) == [kind |-> kind, free |-> FALSE, path |-> 0, prompt |-> NoPrompt]

\* the handler outcome: the component, the request it sent, the timers it set
Out(c, post, timer) == [c |-> c, post |-> post, timer |-> timer]

\* setSubmitting(true); setStatus('Submitting ...')
submitStart(c) == Queue(c, [c.nx EXCEPT !.submitting = TRUE, !.status = "submitting"], FALSE)

\* the score checks of submitScoreAndNext: each missing score raises its flag
\* and sets the timer that clears it
FlagScores(c, form) ==
  Out(Queue(c, [c.nx EXCEPT !.generationScoreError = (@ \/ ~form.quality),
                            !.llmScoreError = (@ \/ ~form.accuracy)], FALSE),
      {},
      (IF form.quality THEN {} ELSE {Tm("generationScoreError")})
        \cup (IF form.accuracy THEN {} ELSE {Tm("llmScoreError")}))

\* a submit that sends the rating without looking at the form
submitScoreAndNextUnchecked(c, form) ==
  Out(submitStart(c), {Post("score", c.st.freeTextMode)}, {})

\* submitScoreAndNext up to its first await
submitScoreAndNext(c, form) ==
  IF c.st.currentPrompt = NoPrompt /\ ~c.st.freeTextMode
  THEN Out(Queue(c, [c.nx EXCEPT !.status = "noPrompt"], FALSE), {}, {})
  ELSE IF ~form.difficulty
  THEN Out(Queue(c, [c.nx EXCEPT !.difficultyError = TRUE], FALSE), {}, {Tm("difficultyError")})
  ELSE IF ~form.quality \/ ~form.accuracy
  THEN FlagScores(c, form)
  ELSE Out(submitStart(c),
           {Post(IF form.file THEN "upload" ELSE "score", c.st.freeTextMode)}, {})

\* a failure report that is sent whether or not there is an LLM response
submitLLMFailureUnchecked(c) ==
  Out(submitStart(c), {Post("failure", c.st.freeTextMode)}, {})

\* submitLLMFailure up to its await
submitLLMFailure(c) ==
  IF c.st.currentPrompt = NoPrompt /\ ~c.st.freeTextMode
  THEN Out(Queue(c, [c.nx EXCEPT !.status = "noPrompt"], FALSE), {}, {})
  ELSE IF ~c.st.shown.resp
  THEN Out(Queue(c, [c.nx EXCEPT !.status = "noResponse"], FALSE), {}, {})
  ELSE Out(submitStart(c), {Post("failure", c.st.freeTextMode)}, {})

\* an upload continuation that gives up the uploaded path
uploadDoneNoPath(c, p, path) == Out(c, {[p EXCEPT !.kind = "score", !.path = 0]}, {})

\* submitScoreAndNext after uploadNoteAttachment resolved with `path`:
\* the rating is posted with notes_audio_path = path
uploadDone(c, p, path) == Out(c, {[p EXCEPT !.kind = "score", !.path = path]}, {})

\* an upload failure that still posts the rating
uploadFailedPosts(c, p) ==
  Out(Queue(c, [c.nx EXCEPT !.status = "error"], FALSE), {[p EXCEPT !.kind = "score"]}, {})

\* submitScoreAndNext when uploadNoteAttachment rejected
uploadFailed(c, p) ==
  Out(Queue(c, [c.nx EXCEPT !.status = "error", !.submitting = FALSE, !.loading = FALSE],
            FALSE), {}, {})

\* the free-text branch after a saved score or failure report
submitDoneFree(c) ==
  Queue(c, [c.nx EXCEPT !.status = "saved", !.shown = NoResult, !.submitting = FALSE], FALSE)

\* the auto branch after a saved score or failure report
submitDoneAuto(c) == Queue(c, [c.nx EXCEPT !.status = "saved"], FALSE)

\* a catch branch that gives the slot up and moves on
submitFailedAdvances(c) ==
  advanceBank(Queue(c, [c.nx EXCEPT !.status = "error", !.submitting = FALSE], FALSE), "skipped")

\* the catch branches of submitScoreAndNext / submitLLMFailure
submitFailed(c) == Queue(c, [c.nx EXCEPT !.status = "error", !.submitting = FALSE], FALSE)

\* the callback of the setTimeout that follows a saved score or failure report
submitTimeout(c, markStatus) ==
  advanceBank(Queue(c, [c.nx EXCEPT !.submitting = FALSE], FALSE), markStatus)

\* handleDeletePrompt up to the DELETE, after it, and its catch branch
deleteStart(c) == Queue(c, [c.nx EXCEPT !.loading = TRUE, !.status = "deleting"], FALSE)
deleteDone(c) == Queue(c, [c.nx EXCEPT !.status = "deleted"], FALSE)
deleteFailed(c) == Queue(c, [c.nx EXCEPT !.status = "error", !.loading = FALSE], FALSE)
deleteTimeout(c) == advanceBank(Queue(c, [c.nx EXCEPT !.status = ""], FALSE), "skipped")

\* the callbacks of the timers that clear a flag or the status message
clearTimeout(c, kind) ==
  Queue(c, CASE kind = "status" -> [c.nx EXCEPT !.status = ""]
             [] kind = "difficultyError" -> [c.nx EXCEPT !.difficultyError = FALSE]
             [] kind = "generationScoreError" -> [c.nx EXCEPT !.generationScoreError = FALSE]
             [] kind = "llmScoreError" -> [c.nx EXCEPT !.llmScoreError = FALSE]
             [] OTHER -> [c.nx EXCEPT !.freeTextError = FALSE], FALSE)

\* the result sendPrompt puts on display
ManualResult == [prompt |-> NoPrompt, gen |-> 0, resp |-> TRUE]

\* a fresh AbortController
NewCtrl(c) == Min({i \in 1..(Cardinality(c.manual) + 1) : \A m \in c.manual : m.id # i})

\* sendPrompt up to its await; text tells whether the free text is not blank
sendPrompt(c, text) ==
  IF c.st.freeTextMode /\ ~text
  THEN Out(Queue(c, [c.nx EXCEPT !.freeTextError = TRUE], FALSE), {}, {Tm("freeTextError")})
  ELSE LET id == NewCtrl(c)
           c1 == Queue(c, [c.nx EXCEPT !.status = "manual", !.loading = TRUE], FALSE)
       IN Out([c1 EXCEPT !.rf.abort = id,
                         !.manual = c.manual \cup {[id |-> id, aborted |-> FALSE]}], {}, {})

\* sendPrompt after its await: try, catch and finally
sendPromptDone(c, m, ok) ==
  LET q == IF m.aborted THEN c.nx
           ELSE IF ok THEN [c.nx EXCEPT !.shown = ManualResult, !.status = "generated",
                                        !.difficultyError = FALSE, !.freeTextError = FALSE,
                                        !.loading = FALSE]
           ELSE [c.nx EXCEPT !.status = "error", !.loading = FALSE]
  IN [Queue(c, q, FALSE) EXCEPT !.rf.abort = 0, !.manual = c.manual \ {m}]

\* the Reset button: the form and the displayed result are cleared
resetTestingForm(c) ==
  Queue(c, [c.nx EXCEPT !.status = "", !.shown = NoResult, !.submitting = FALSE,
                        !.generationScoreError = FALSE, !.llmScoreError = FALSE,
                        !.difficultyError = FALSE, !.freeTextError = FALSE], FALSE)

toggleMode(c) ==
  LET newMode == ~c.st.freeTextMode
      c1 == Queue(c, [c.nx EXCEPT !.freeTextMode = newMode, !.shown = NoResult,
                                  !.status = ""], FALSE)
  IN IF newMode THEN c1 ELSE [c1 EXCEPT !.rf.lastApplied = -1]

\* the status advanceBank is called with after each kind of request
MarkOf(kind) == IF kind = "score" THEN "rated" ELSE "skipped"

\* ---------------------------------------------------------------- steps
\* install the component value c; start the fetches and requests it asked for
Commit(c, fs, rs) ==
  /\ calls + c.gen <= cap /\ cap' = cap
  /\ st' = c.st /\ nx' = c.nx /\ rf' = c.rf /\ fl' = c.fl /\ head' = c.head
  /\ reqs' = rs \cup c.fire
  /\ calls' = calls + c.gen
  /\ manual' = c.manual
  /\ qp' = qp
  /\ fetches' = fs \cup {[gen |-> c.rf.batchGenId - c.gen + k, ser |-> calls + k] : k \in 1..c.gen}

\* the page is mounted and rendering, and no promise continuation is due: the
\* rejection of an aborted request is handled before any other task
Alive == fl.mounted /\ ~fl.crashed /\ \A m \in manual : ~m.aborted

\* history of an advanceBank call that found the bank exhausted
Exhausted(c) ==
  /\ Exists(c.rf.bank, c.rf.bankIndex)
  /\ \A i \in 1..Len(c.rf.bank) :
       i # c.rf.bankIndex + 1 => c.rf.bank[i].status \notin Unfinished

NoteAdvance(op, c) ==
  hist' = IF Exhausted(c)
          THEN [op |-> op, exhBank |-> c.rf.bank[1].prompt,
                exhCalls |-> IF hist.exhBank = c.rf.bank[1].prompt THEN hist.exhCalls + 1 ELSE 1,
                exhOk |-> \A i \in 1..Len(c.rf.bank) : c.rf.bank[i].result # NoResult]
          ELSE [hist EXCEPT !.op = op]

\* the operations the history tells apart
Noted == {"install", "respStale", "respDropped", "respReady", "respFailed", "skip", "timer",
          "reload", "rejected", "uploadOk", "uploadFail", "cancelled"}

Note(op) == hist' = [hist EXCEPT !.op = IF op \in Noted THEN op ELSE "-"]

InitCap(n) ==
  /\ cap = n
  /\ st = EmptyState /\ nx = EmptyState
  /\ rf = FreshRefs(<<>>, 0)
  /\ fl = FreshFlags
  /\ reqs = {} /\ fetches = {} /\ posts = {} /\ timers = {}
  /\ head = NoHead
  /\ calls = 0 /\ mounts = 0 /\ manual = {}
  /\ qp = QInit
  /\ hist = [op |-> "init", exhBank |-> NoPrompt, exhCalls |-> 0, exhOk |-> FALSE]

\* the passive effects of the last commit run
RunEffects ==
  /\ fl.fx /\ ~fl.crashed
  /\ Commit(Effects(Comp), fetches, reqs)
  /\ Note(IF fl.mounted THEN "effects" ELSE "mount")
  /\ UNCHANGED <<posts, timers, mounts>>

\* a render caused by updates queued outside click handlers
DoRender ==
  /\ Alive /\ fl.dirty
  /\ Commit(Render(Comp), fetches, reqs)
  /\ Note("render")
  /\ UNCHANGED <<posts, timers, mounts>>

\* /api/prompts/batch answers generateNewBatch call f with k prompts
FetchOk(f, k) ==
  /\ Alive /\ f \in fetches
  /\ Commit(IF k = 0
            THEN Queue(Comp, [nx EXCEPT !.status = "noPrompts", !.currentPrompt = NoPrompt], FALSE)
            ELSE InstallBatch(Comp, PromptsOf(f.ser, k), f.gen),
            fetches \ {f}, reqs)
  /\ Note(IF k = 0 THEN "fetchEmpty" ELSE "install")
  /\ UNCHANGED <<posts, timers, mounts>>

\* /api/prompts/batch rejects: only the status message changes
FetchFail(f) ==
  /\ Alive /\ f \in fetches
  /\ Commit(Queue(Comp, [nx EXCEPT !.status = "error"], FALSE), fetches \ {f}, reqs)
  /\ Note("fetchFail")
  /\ UNCHANGED <<posts, timers, mounts>>

\* /api/test/send-prompt answers the request r of firePregen
Response(r, ok) ==
  /\ Alive /\ r \in reqs
  /\ LET upd == IF ok THEN ReadyUpdater(nx.bank, r.idx, buildResult(r.prompt, r.gen))
                ELSE FailedUpdater(nx.bank, r.idx)
     IN IF IsStale(r.gen, rf.batchGenId)
        THEN Commit(Comp, fetches, reqs \ {r}) /\ Note("respStale")
        ELSE /\ Commit(Queue(Comp, [nx EXCEPT !.bank = upd], TRUE), fetches, reqs \ {r})
             /\ Note(IF upd = nx.bank THEN "respDropped"
                     ELSE IF ok THEN "respReady" ELSE "respFailed")
  /\ UNCHANGED <<posts, timers, mounts>>

\* the HEAD request of the staleness check answers
HeadResolve(ok) ==
  /\ Alive /\ head.on
  /\ Commit([(IF ok THEN restoreBank(Comp, head.bank) ELSE generateNewBatch(Comp))
               EXCEPT !.head = NoHead], fetches, reqs)
  /\ Note(IF ok THEN "restore" ELSE "stale")
  /\ UNCHANGED <<posts, timers, mounts>>

\* the user presses Skip Prompt; while a DELETE is in flight the confirmation
\* dialog still covers the page
Skip ==
  /\ Alive /\ ~st.freeTextMode /\ st.currentPrompt # NoPrompt /\ ~st.submitting
  /\ \A p \in posts : p.kind # "delete"
  /\ Commit(Click(loadNextPrompt(Comp)), fetches, reqs)
  /\ NoteAdvance("skip", Comp)
  /\ UNCHANGED <<posts, timers, mounts>>

\* the paths /api/results/upload-note-audio may answer with (0: none)
Paths == {0, 1}

\* the user presses Submit Score (kind "score") or Report LLM Failure ("failure")
\* with the rating form holding `form`
Submit(kind, form) ==
  /\ Alive /\ st.shown # NoResult /\ ~st.loading /\ ~st.submitting
  /\ kind = "failure" => st.shown.resp
  /\ LET o == IF kind = "score" THEN submitScoreAndNext(Comp, form) ELSE submitLLMFailure(Comp)
     IN /\ Commit(Click(o.c), fetches, reqs)
        /\ \E ret \in Paths :
             posts' = posts \cup {[p EXCEPT !.path = IF p.kind = "upload" THEN ret ELSE p.path,
                                              !.prompt = st.currentPrompt] : p \in o.post}
        /\ timers' = timers \cup o.timer
        /\ Note(IF o.post = {} THEN "rejected" ELSE "submit")
  /\ UNCHANGED mounts

\* the user confirms Delete
Delete ==
  /\ Alive /\ ~st.freeTextMode /\ st.currentPrompt # NoPrompt /\ ~st.loading
  /\ \A p \in posts \cup timers : p.kind # "delete"
  /\ Commit(Click(deleteStart(Comp)), fetches, reqs)
  /\ posts' = posts \cup {[Post("delete", FALSE) EXCEPT !.prompt = st.currentPrompt]}
  /\ Note("delete")
  /\ UNCHANGED <<timers, mounts>>

\* a POST / DELETE succeeds; an upload is answered with the path p.path
PostOk(p) ==
  /\ Alive /\ p \in posts
  /\ CASE p.kind = "upload" ->
            LET o == uploadDone(Comp, p, p.path)
            IN /\ Commit(o.c, fetches, reqs)
               /\ posts' = (posts \ {p}) \cup o.post
               /\ timers' = timers
       [] p.kind = "delete" ->
            /\ Commit(deleteDone(Comp), fetches, reqs)
            /\ posts' = posts \ {p}
            /\ timers' = timers \cup {p}
       [] OTHER ->
            /\ Commit(IF p.free THEN submitDoneFree(Comp) ELSE submitDoneAuto(Comp),
                      fetches, reqs)
            /\ posts' = posts \ {p}
            /\ timers' = timers \cup {Tm("status")} \cup (IF p.free THEN {} ELSE {p})
  /\ Note(IF p.kind = "upload" THEN "uploadOk" ELSE "postOk")
  /\ UNCHANGED mounts

\* a POST / DELETE fails
PostFail(p) ==
  /\ Alive /\ p \in posts
  /\ LET o == CASE p.kind = "upload" -> uploadFailed(Comp, p)
                [] p.kind = "delete" -> Out(deleteFailed(Comp), {}, {})
                [] OTHER -> Out(submitFailed(Comp), {}, {})
     IN /\ Commit(o.c, fetches, reqs)
        /\ posts' = (posts \ {p}) \cup o.post
  /\ Note(IF p.kind = "upload" THEN "uploadFail" ELSE "postFail")
  /\ UNCHANGED <<timers, mounts>>

\* the callback of a setTimeout runs
TimerFire(t) ==
  /\ Alive /\ t \in timers
  /\ timers' = timers \ {t}
  /\ Commit(CASE t.kind = "delete" -> deleteTimeout(Comp)
              [] t.kind \in {"score", "failure"} -> submitTimeout(Comp, MarkOf(t.kind))
              [] OTHER -> clearTimeout(Comp, t.kind), fetches, reqs)
  /\ IF t.kind \in {"delete", "score", "failure"}
     THEN NoteAdvance("timer", Comp) ELSE Note("clear")
  /\ UNCHANGED <<posts, mounts>>

\* the user presses Generate Loop on the Free Text tab
SendPrompt(text) ==
  /\ Alive /\ st.freeTextMode /\ ~st.loading
  /\ LET o == sendPrompt(Comp, text)
     IN /\ Commit(Click(o.c), fetches, reqs)
        /\ timers' = timers \cup o.timer
  /\ Note("send")
  /\ UNCHANGED <<posts, mounts>>

\* the request of sendPrompt settles: an aborted one rejects at once
SendPromptDone(m, ok) ==
  /\ fl.mounted /\ ~fl.crashed /\ m \in manual
  /\ m.aborted \/ Alive
  /\ m.aborted => ~ok
  /\ Commit(sendPromptDone(Comp, m, ok), fetches, reqs)
  /\ Note(IF m.aborted THEN "cancelled" ELSE "sent")
  /\ UNCHANGED <<posts, timers, mounts>>

\* the user switches between the Auto Prompt and the Free Text tab
ToggleMode ==
  /\ Alive
  /\ Commit(Click(toggleMode(Comp)), fetches, reqs)
  /\ Note("toggle")
  /\ UNCHANGED <<posts, timers, mounts>>

\* the user presses Reset
ResetForm ==
  /\ Alive
  /\ Commit(Click(resetTestingForm(Comp)), fetches, reqs)
  /\ Note("reset")
  /\ UNCHANGED <<posts, timers, mounts>>

\* JSON.parse(JSON.stringify(bank)): items keep prompt, result and status; an
\* empty element comes back as null
JsonBank(bank) ==
  [i \in 1..Len(bank) |->
     IF bank[i] = Undef THEN Undef
     ELSE [prompt |-> bank[i].prompt, result |-> bank[i].result, status |-> bank[i].status]]

\* the state a new component instance starts from: loadBank / loadBankIndex
\* read what saveBank / saveBankIndex wrote, getInitialState reads the session
\* copy of the prompt, the result and the mode; the rest starts afresh
Restored(c) ==
  [EmptyState EXCEPT !.bank = JsonBank(c.rf.bank), !.bankIndex = c.rf.bankIndex,
                     !.currentPrompt = c.st.currentPrompt, !.shown = c.st.shown,
                     !.freeTextMode = c.st.freeTextMode]

\* the user navigates away and back: a new component instance is constructed
\* from what the effects of the old one saved
Remount ==
  /\ Alive /\ mounts < MaxMounts
  /\ LET s == Restored(IF fl.fx THEN SyncRefs(Comp) ELSE Comp)
     IN /\ st' = s /\ nx' = s
        /\ rf' = FreshRefs(s.bank, s.bankIndex)
  /\ fl' = FreshFlags
  /\ reqs' = {} /\ fetches' = {} /\ posts' = {} /\ timers' = {} /\ manual' = {}
  /\ head' = NoHead
  /\ mounts' = mounts + 1
  /\ Note("remount")
  /\ UNCHANGED <<calls, cap, qp>>

\* the user reloads the page once its effects have run: localStorage and
\* sessionStorage outlive the document, and isPageRefresh is still false when
\* the state initialisers run
Reload ==
  /\ Alive /\ ~fl.fx /\ ~fl.dirty /\ mounts < MaxMounts
  /\ LET s == Restored(Comp)
     IN /\ st' = s /\ nx' = s
        /\ rf' = FreshRefs(s.bank, s.bankIndex)
  /\ fl' = FreshFlags
  /\ reqs' = {} /\ fetches' = {} /\ posts' = {} /\ timers' = {} /\ manual' = {}
  /\ head' = NoHead
  /\ mounts' = mounts + 1
  /\ Note("reload")
  /\ UNCHANGED <<calls, cap, qp>>

\* what happens without the user: effects, renders and network answers
System ==
  \/ RunEffects
  \/ DoRender
  \/ \E f \in fetches : \E k \in 0..MaxBank : FetchOk(f, k)
  \/ \E f \in fetches : FetchFail(f)
  \/ \E r \in reqs : \E ok \in BOOLEAN : Response(r, ok)

\* a rating session on the Auto Prompt tab
Next ==
  \/ System
  \/ Skip
  \/ \E kind \in {"score", "failure"} : Submit(kind, FullForm)
  \/ Delete
  \/ \E p \in posts : PostOk(p)
  \/ \E p \in posts : PostFail(p)
  \/ \E t \in timers : TimerFire(t)

Init == InitCap(MaxCalls)

Spec == Init /\ [][Next]_vars

\* skipping, switching tabs and navigating away and back
NextNav ==
  \/ System
  \/ Skip
  \/ ToggleMode
  \/ Remount
  \/ \E ok \in BOOLEAN : HeadResolve(ok)

SpecNav == Init /\ [][NextNav]_vars

\* the same with full page reloads
NextReload ==
  \/ NextNav
  \/ Reload

SpecReload == Init /\ [][NextReload]_vars

\* the user only skips: overlapping generateNewBatch calls
NextSkip ==
  \/ System
  \/ Skip

SpecSkip == InitCap(MaxOverlap) /\ [][NextSkip]_vars

\* the user skips, switches tabs and generates loops by hand
NextManual ==
  \/ System
  \/ Skip
  \/ ToggleMode
  \/ \E text \in BOOLEAN : SendPrompt(text)
  \/ \E m \in manual, ok \in BOOLEAN : SendPromptDone(m, ok)
  \/ \E t \in timers : TimerFire(t)

SpecManual == InitCap(MaxCalls) /\ [][NextManual]_vars

\* the user only switches tabs and resets the form
NextReset ==
  \/ System
  \/ ToggleMode
  \/ ResetForm

SpecReset == InitCap(MaxCalls) /\ [][NextReset]_vars

\* nobody touches the page and the prompt source answers every fetch
NextAuto ==
  \/ RunEffects
  \/ DoRender
  \/ \E f \in fetches : \E k \in 1..MaxBank : FetchOk(f, k)
  \/ \E r \in reqs : \E ok \in BOOLEAN : Response(r, ok)

SpecAuto == Init /\ [][NextAuto]_vars

\* the rater submits with the form in any state: validation, upload, POST;
\* the prompt source answers every fetch with one prompt
NextForm ==
  \/ RunEffects
  \/ DoRender
  \/ \E f \in fetches : FetchOk(f, 1)
  \/ \E r \in reqs : \E ok \in BOOLEAN : Response(r, ok)
  \/ \E kind \in {"score", "failure"} : \E form \in Forms : Submit(kind, form)
  \/ \E p \in posts : PostOk(p)
  \/ \E p \in posts : PostFail(p)
  \/ \E t \in timers : TimerFire(t)

SpecForm == Init /\ [][NextForm]_vars

\* a page in the middle of a session: a bank of n slots of which the one at
\* index i is being rated, the others generating, ready or rated
MidSession(n, stat, i) ==
  LET prompts == PromptsOf(1, n)
      bank == [k \in 1..n |->
                 [prompt |-> prompts[k],
                  status |-> IF k = i + 1 THEN "rating" ELSE stat[k],
                  result |-> IF k # i + 1 /\ stat[k] = "generating" THEN NoResult
                             ELSE buildResult(prompts[k], 1)]]
      s == [EmptyState EXCEPT !.bank = bank, !.bankIndex = i,
                              !.currentPrompt = prompts[i + 1],
                              !.shown = bank[i + 1].result, !.status = "generated"]
  IN /\ st = s /\ nx = s
     /\ rf = [FreshRefs(bank, i) EXCEPT !.lastApplied = i, !.batchGenId = 1]
     /\ fl = [FreshFlags EXCEPT !.fx = FALSE, !.mounted = TRUE]
     /\ reqs = {firePregen(prompts[k], k - 1, 1) : k \in {j \in 1..n : bank[j].status = "generating"}}

InitCall ==
  /\ \E n \in 1..CallBank : \E stat \in [1..n -> {"generating", "ready", "rated"}] :
       \E i \in 0..(n - 1) : MidSession(n, stat, i)
  /\ fetches = {} /\ posts = {} /\ timers = {} /\ manual = {}
  /\ head = NoHead
  /\ cap = MaxCalls /\ calls = 1 /\ mounts = 0
  /\ qp = QInit
  /\ hist = [op |-> "init", exhBank |-> NoPrompt, exhCalls |-> 0, exhOk |-> FALSE]

\* submitLLMFailure invoked where its button is disabled for want of an LLM
\* response
CallSubmitLLMFailure ==
  /\ Alive /\ st.shown # NoResult /\ ~st.loading /\ ~st.submitting
  /\ ~st.shown.resp
  /\ LET o == submitLLMFailure(Comp)
     IN /\ Commit(Click(o.c), fetches, reqs)
        /\ posts' = posts \cup o.post
        /\ timers' = timers \cup o.timer
        /\ Note(IF o.post = {} THEN "rejected" ELSE "submit")
  /\ UNCHANGED mounts

\* the handlers applied to a page in the middle of a session, while the
\* generation requests stay unanswered
NextCall ==
  \/ RunEffects
  \/ DoRender
  \/ Skip
  \/ \E kind \in {"score", "failure"} : Submit(kind, FullForm)
  \/ CallSubmitLLMFailure
  \/ \E p \in posts : PostOk(p)
  \/ \E p \in posts : PostFail(p)
  \/ \E t \in timers : TimerFire(t)

SpecCall == InitCall /\ [][NextCall]_vars

\* ---------------------------------------------------------------- queue variant: steps
MaxConcurrent == 2

Elems(seq) == {seq[i] : i \in DOMAIN seq}

\* fetchBatch(currentQueue, currentId, count): the request asks for the
\* prompts that are missing; the answer is appended to currentQueue as it was
\* when the call was made
fetchBatch(q, kind, currentQueue, count) ==
  [q EXCEPT !.nfetch = @ + 1,
            !.refills = @ \cup {[n |-> q.nfetch + 1, kind |-> kind, rest |-> currentQueue,
                                 needed |-> IF count > Len(currentQueue)
                                            THEN count - Len(currentQueue) ELSE 0]}]

\* pregenOne(prompt), called by the worker of pipeline pipe (0: no pipeline)
pregenOne(q, p, pipe) ==
  IF p \in q.results \cup q.inflight THEN q
  ELSE [q EXCEPT !.inflight = @ \cup {p}, !.gens = @ \cup {[id |-> p, pipe |-> pipe]}]

\* the workers of pipeline k that are not awaiting a request shift prompts
\* off the work list until each has a request in flight or the list is
\* empty; a pregenOne that returns at once is awaited in a microtask, before
\* any other event
RECURSIVE worker(_, _)
worker(q, k) ==
  IF q.pipes[k].idle = 0 \/ Len(q.pipes[k].list) = 0 THEN q
  ELSE LET p == Head(q.pipes[k].list)
           shifted == [q EXCEPT !.pipes[k].list = Tail(@)]
           called == pregenOne(shifted, p, k)
       IN worker(IF called = shifted THEN shifted
                 ELSE [called EXCEPT !.pipes[k].idle = @ - 1], k)

\* startPregenPipeline(prompts): a work list shared by up to MaxConcurrent workers
startPregenPipeline(q, prompts) ==
  worker([q EXCEPT !.pipes = Append(@, [list |-> prompts,
                                        idle |-> IF Len(prompts) < MaxConcurrent
                                                 THEN Len(prompts) ELSE MaxConcurrent])],
         Len(q.pipes) + 1)

\* advanceFromQueue(queue), queue not empty
advanceFromQueue(q, queue) ==
  LET next == Head(queue)
      rest == Tail(queue)
      popd == [q EXCEPT !.queue = rest, !.cur = next, !.popped = @ \cup {next}]
      shown == IF next \in q.results
               THEN [popd EXCEPT !.results = @ \ {next}, !.res = next]
               ELSE pregenOne([popd EXCEPT !.res = 0], next, 0)
  IN fetchBatch(shown, "refill", rest, QueueSize)

\* the initial load effect
QStart ==
  /\ ~qp.started
  /\ qp' = fetchBatch([qp EXCEPT !.started = TRUE], "init", <<>>, QueueSize + 1)
  /\ UNCHANGED bankVars

\* the prompts the prompt source answers with: k prompts that are in no
\* exclude list
Fresh(q, k) == [i \in 1..k |-> q.nextId + i - 1]

\* a prompt fetch resolves with k prompts (none: the request failed or the
\* source is empty) and its continuation runs
QFetchOutcome(q, f, k) ==
  LET data == Fresh(q, k)
      took == [q EXCEPT !.refills = @ \ {f}, !.nextId = @ + k]
      newQueue == f.rest \o data
      newPrompts == SelectSeq(newQueue, LAMBDA p : p \notin q.results \cup q.inflight)
      set == [took EXCEPT !.queue = newQueue]
  IN CASE f.kind = "init" ->
            IF k = 0 THEN took
            ELSE startPregenPipeline([took EXCEPT !.cur = data[1], !.queue = Tail(data)], data)
       [] f.kind = "refill" ->
            IF Len(newPrompts) > 0 THEN startPregenPipeline(set, newPrompts) ELSE set
       [] f.kind = "next" ->
            IF k = 0 THEN took
            ELSE fetchBatch(pregenOne([took EXCEPT !.cur = data[1], !.res = 0], data[1], 0),
                            "fallback", <<>>, QueueSize)
       [] OTHER -> set

QFetchDone ==
  \E f \in qp.refills : \E k \in 0..f.needed :
    /\ qp.nextId + k <= MaxPrompts + 1
    /\ qp' = QFetchOutcome(qp, f, k)
    /\ UNCHANGED bankVars

\* the render after a promise continuation, with the effect that copies
\* promptQueue into promptQueueRef
QSync ==
  /\ qp.qref # qp.queue
  /\ qp' = [qp EXCEPT !.qref = qp.queue]
  /\ UNCHANGED bankVars

\* loadNextPrompt of the queue variant: the click reads promptQueueRef, and its
\* own render brings the ref up to date
QloadNextPrompt(q) ==
  LET after == IF Len(q.qref) > 0 THEN advanceFromQueue(q, q.qref)
               ELSE [q EXCEPT !.nfetch = @ + 1,
                              !.refills = @ \cup {[n |-> q.nfetch + 1, kind |-> "next",
                                                   rest |-> <<>>, needed |-> 1]}]
  IN [after EXCEPT !.qref = after.queue]

QSkip ==
  /\ qp.cur # 0
  /\ qp.nfetch < MaxFetches
  /\ qp' = QloadNextPrompt(qp)
  /\ UNCHANGED bankVars

\* the poll effect: applies the stored result of the current prompt
QPoll ==
  /\ qp.cur # 0 /\ qp.res = 0 /\ qp.cur \in qp.results
  /\ qp' = [qp EXCEPT !.results = @ \ {qp.cur}, !.res = qp.cur]
  /\ UNCHANGED bankVars

\* a generation request of pregenOne settles; the worker that awaited it
\* goes on with the work list
QGenOutcome(q, r, ok) ==
  LET done == [q EXCEPT !.gens = @ \ {r}, !.inflight = @ \ {r.id},
                        !.results = IF ok THEN @ \cup {r.id} ELSE @]
  IN IF r.pipe = 0 THEN done
     ELSE worker([done EXCEPT !.pipes[r.pipe].idle = @ + 1], r.pipe)

QGenDone ==
  \E r \in qp.gens : \E ok \in BOOLEAN :
    /\ qp' = QGenOutcome(qp, r, ok)
    /\ UNCHANGED bankVars

NextQueue ==
  \/ QStart
  \/ QFetchDone
  \/ QSync
  \/ QSkip
  \/ QPoll
  \/ QGenDone

SpecQueue == Init /\ [][NextQueue]_vars

\* ---------------------------------------------------------------- properties
Slots(bank) == 1..Len(bank)

\* the same bank before and after a step: same length, same prompts
SameBank(a, b) == Len(a) = Len(b) /\ \A i \in Slots(a) : a[i].prompt = b[i].prompt

\* a Response step, and the request it answered
RespOps == {"respStale", "respDropped", "respReady", "respFailed"}
Answered == reqs \ reqs'

\* nothing is scheduled and no answer that could change the bank is awaited
Quiescent ==
  /\ fl.mounted /\ ~fl.crashed /\ ~fl.dirty /\ ~fl.fx
  /\ fetches = {} /\ posts = {} /\ timers = {} /\ ~head.on
  /\ \A r \in reqs : r.gen # rf.batchGenId

\* C1: every stored result was produced by the request issued for the prompt
\* of the slot that holds it
C1_ResultBelongsToSlot ==
  \A i \in Slots(st.bank) :
    st.bank[i].result # NoResult => st.bank[i].result.prompt = st.bank[i].prompt

\* C2: the answer to a request whose token is not the current one leaves the
\* bank as it is: nothing is queued, nothing is committed, no ref moves
C2_StaleAnswerChangesNothing ==
  [][(hist'.op \in RespOps /\ \E r \in Answered : r.gen # rf.batchGenId)
       => (nx' = nx /\ st' = st /\ rf' = rf /\ fl' = fl)]_vars

\* a stale answer has just been discarded while every slot of the queued bank
\* was still generating
C2_Witness ==
  /\ hist.op = "respStale"
  /\ Len(nx.bank) = MaxBank
  /\ \A i \in Slots(nx.bank) : nx.bank[i].status = "generating"

\* C3: for a bank whose requests all succeeded, generateNewBatch is invoked at
\* most once when it is exhausted
C3_OneReplacement == hist.exhOk => hist.exhCalls <= 1

\* C4: an answer with the current token for a slot that is not generating
\* changes no slot of the bank
C4_SettledSlotKeepsResult ==
  [][(hist'.op \in RespOps /\
      \E r \in Answered : /\ r.gen = rf.batchGenId
                          /\ Exists(nx.bank, r.idx)
                          /\ nx.bank[r.idx + 1].status # "generating")
       => (nx'.bank = nx.bank /\ st'.bank = st.bank)]_vars

\* an answer with the current token has just been dropped while every slot of
\* the bank held a result (ready or rating)
C4_Witness ==
  /\ hist.op = "respDropped"
  /\ Len(nx.bank) = MaxBank
  /\ \A i \in Slots(nx.bank) :
       nx.bank[i].status \in {"ready", "rating"} /\ nx.bank[i].result # NoResult

\* C5: within one bank a slot that has left generating is never generating again
C5_NeverBackToGenerating ==
  [][SameBank(st.bank, st'.bank) =>
       \A i \in Slots(st.bank) :
         st.bank[i].status # "generating" => st'.bank[i].status # "generating"]_vars

\* C6: within one bank a slot that is rated, skipped or failed keeps its status
C6_TerminalIsFinal ==
  [][SameBank(st.bank, st'.bank) =>
       \A i \in Slots(st.bank) :
         st.bank[i].status \in Terminal => st'.bank[i].status = st.bank[i].status]_vars

\* C7: in auto mode, once nothing is scheduled or awaited any more, a bank with
\* a ready slot has a result on display
C7_ReadyIsDisplayed ==
  (Quiescent /\ ~st.freeTextMode /\ \E i \in Slots(st.bank) : st.bank[i].status = "ready")
    => st.shown # NoResult

\* C8: (a) once the effects of a commit have run in which the current slot is
\* generating and another slot is ready, the queued index is that of a ready
\* slot; (b) once they have run with the current slot ready, its prompt and
\* result are queued for display and it is queued as rating; (c) a displayed
\* result, its prompt and the index stay as they are while the other slots
\* resolve
C8_Pending(s) ==
  /\ ~s.freeTextMode /\ Exists(s.bank, s.bankIndex) /\ s.shown = NoResult
C8_Jumped ==
  (fl.mounted /\ ~fl.fx /\ C8_Pending(st) /\ st.bank[st.bankIndex + 1].status = "generating"
     /\ \E i \in Slots(st.bank) : st.bank[i].status = "ready")
    => /\ nx.bankIndex # st.bankIndex
       /\ Exists(st.bank, nx.bankIndex)
       /\ st.bank[nx.bankIndex + 1].status = "ready"
C8_Applied ==
  (fl.mounted /\ ~fl.fx /\ C8_Pending(st) /\ st.bank[st.bankIndex + 1].status = "ready")
    => /\ nx.bankIndex = st.bankIndex
       /\ nx.shown = st.bank[st.bankIndex + 1].result
       /\ nx.currentPrompt = st.bank[st.bankIndex + 1].prompt
       /\ nx.bank[st.bankIndex + 1].status = "rating"
C8_Shown(s) ==
  s.shown # NoResult =>
    /\ Exists(s.bank, s.bankIndex)
    /\ s.bank[s.bankIndex + 1].status = "rating"
    /\ s.bank[s.bankIndex + 1].result = s.shown
    /\ s.bank[s.bankIndex + 1].prompt = s.currentPrompt
C8_JumpsAndStays ==
  [][/\ C8_Jumped' /\ C8_Applied' /\ C8_Shown(st')
     /\ st.shown # NoResult =>
          /\ st'.shown = st.shown /\ st'.bankIndex = st.bankIndex
          /\ st'.currentPrompt = st.currentPrompt]_vars

\* the second slot is being rated and displayed, and the first slot, on which
\* the page started, has resolved after the jump
C8_Witness ==
  /\ Len(st.bank) = 2 /\ st.bankIndex = 1
  /\ st.bank[2].status = "rating" /\ st.shown = st.bank[2].result
  /\ st.currentPrompt = st.bank[2].prompt
  /\ st.bank[1].status = "ready"

\* C9: once nothing is scheduled or awaited any more, the bank on the page is
\* not an exhausted one
C9_ExhaustedIsReplaced ==
  (Quiescent /\ Len(st.bank) > 0) => \E i \in Slots(st.bank) : st.bank[i].status \notin Terminal

\* C10: the current index of a bank that is not empty is an index of the bank
C10_IndexInBank ==
  Len(st.bank) > 0 => (st.bankIndex >= 0 /\ st.bankIndex < Len(st.bank))

\* the timers whose callback calls advanceBank
AdvanceKinds == {"score", "failure", "delete"}

\* the outcome `o` of a handler sends nothing, sets no advancing timer, starts
\* no batch and leaves the queued bank, the queued index and the refs alone
Stays(o) ==
  /\ o.post = {} /\ o.c.fire = {} /\ o.c.gen = 0
  /\ \A t \in o.timer : t.kind \notin AdvanceKinds
  /\ o.c.nx.bank = nx.bank /\ o.c.nx.bankIndex = nx.bankIndex
  /\ o.c.rf = rf

\* C11: in every reachable state, submitScoreAndNext called with a score
\* missing sends neither the upload nor the rating, does not advance and
\* leaves the bank and the current index as they are
C11_MissingScoreSendsNothing ==
  \A form \in Forms :
    (~form.quality \/ ~form.accuracy) => Stays(submitScoreAndNext(Comp, form))

\* a submit has just been rejected for a missing score, with a result on
\* display and nothing sent
C11_Witness ==
  /\ hist.op = "rejected" /\ (nx.generationScoreError \/ nx.llmScoreError)
  /\ st.shown # NoResult /\ posts = {} /\ ~nx.submitting
  /\ Exists(st.bank, st.bankIndex) /\ st.bank[st.bankIndex + 1].status = "rating"

\* C12: whenever the submit button can be pressed on a prompt, a submit with
\* a missing score raises the flag of that score and sets the timer that
\* clears it, whatever the rest of the form holds; the timer's callback clears
\* the flag
C12_EachMissingScoreFlagged ==
  (st.shown # NoResult /\ ~st.loading /\ ~st.submitting /\ st.currentPrompt # NoPrompt) =>
    \A form \in Forms :
      LET o == submitScoreAndNext(Comp, form) IN
        /\ ~form.quality =>
             /\ o.c.nx.generationScoreError
             /\ Tm("generationScoreError") \in o.timer
             /\ ~clearTimeout(o.c, "generationScoreError").nx.generationScoreError
        /\ ~form.accuracy =>
             /\ o.c.nx.llmScoreError
             /\ Tm("llmScoreError") \in o.timer
             /\ ~clearTimeout(o.c, "llmScoreError").nx.llmScoreError

\* C13: (a) a submit with a pending attachment sends the upload and nothing
\* else; (b) a rating is posted either by a submit, with no attachment path,
\* or in the step in which an upload is answered, with the path of that
\* answer; (c) the timer that advances with 'rated' is set only in the step in
\* which a rating POST is answered successfully, and a slot is queued as rated
\* only by that timer's callback
C13_UploadThenScoreThenAdvance ==
  [][/\ \A form \in Forms :
          (form.quality /\ form.accuracy /\ form.difficulty /\ form.file
             /\ (st.currentPrompt # NoPrompt \/ st.freeTextMode)) =>
            LET o == submitScoreAndNext(Comp, form) IN
              /\ \A p \in o.post : p.kind = "upload"
              /\ o.post # {} /\ o.timer = {}
     /\ \A p \in posts' \ posts :
          p.kind = "score" =>
            \/ posts \ posts' = {} /\ p.path = 0
            \/ \E u \in posts \ posts' : u.kind = "upload" /\ p.path = u.path
     /\ \A t \in timers' \ timers :
          t.kind = "score" =>
            /\ \E p \in posts \ posts' : p.kind = "score"
            /\ nx'.status = "saved"
     /\ \A i \in Slots(nx'.bank) :
          (nx'.bank[i].status = "rated" /\ SameBank(nx.bank, nx'.bank)
             /\ nx.bank[i].status # "rated") =>
            \E t \in timers \ timers' : t.kind = "score"]_vars

\* an upload has just been answered with a path, and the rating is in flight
\* with that path while the slot is still being rated
C13_Witness ==
  /\ hist.op = "uploadOk"
  /\ \E p \in posts : p.kind = "score" /\ p.path # 0
  /\ nx.submitting /\ timers = {}
  /\ Exists(nx.bank, nx.bankIndex) /\ nx.bank[nx.bankIndex + 1].status = "rating"

\* C14: in every reachable state with an upload in flight, its failure sends
\* no rating, sets an error status message, ends submitting and loading, does
\* not advance and leaves the bank, the index and the displayed result alone
C14_UploadFailureAborts ==
  \A u \in posts :
    u.kind = "upload" =>
      LET o == uploadFailed(Comp, u) IN
        /\ Stays(o) /\ o.timer = {}
        /\ o.c.nx.status = "error" /\ ~o.c.nx.submitting /\ ~o.c.nx.loading
        /\ o.c.nx.shown = nx.shown /\ o.c.nx.currentPrompt = nx.currentPrompt

\* an upload has just failed: the slot is still rating with its result on
\* display, nothing is in flight and the submit button is enabled again
C14_Witness ==
  /\ hist.op = "uploadFail" /\ posts = {} /\ timers = {}
  /\ nx.status = "error" /\ ~nx.submitting /\ ~nx.loading
  /\ Exists(nx.bank, nx.bankIndex) /\ nx.bank[nx.bankIndex + 1].status = "rating"
  /\ nx.shown = nx.bank[nx.bankIndex + 1].result /\ nx.shown # NoResult

\* C15: on a bank of 5 slots with slots 0 and 1 rated, slot 2 the current one,
\* slot 3 generating and slot 4 ready, the current index moves from 2 to 4
C15_AdvanceSelectsFour ==
  [][(/\ Len(st.bank) = 5 /\ st.bankIndex = 2 /\ SameBank(st.bank, st'.bank)
      /\ st.bank[1].status = "rated" /\ st.bank[2].status = "rated"
      /\ st.bank[3].status \in {"rating", "rated"}
      /\ st.bank[4].status = "generating" /\ st.bank[5].status = "ready"
      /\ st'.bankIndex # 2)
       => st'.bankIndex = 4]_vars

\* C16: a slot carries a result only while it is ready or rating
C16_ResultOnlyWhileReadyOrRating ==
  \A i \in Slots(st.bank) :
    st.bank[i].result # NoResult => st.bank[i].status \in {"ready", "rating"}

\* C17: a component mounted after in-app navigation starts from the bank and
\* the index that were saved last; one mounted after a full reload starts
\* from an empty bank and index 0
C17_RestoredOnNavigationOnly ==
  [][/\ (mounts' > mounts /\ hist'.op # "reload") =>
          /\ st'.bank = (IF fl.fx THEN st.bank ELSE rf.bank)
          /\ st'.bankIndex = (IF fl.fx THEN st.bankIndex ELSE rf.bankIndex)
     /\ hist'.op = "reload" => (st'.bank = <<>> /\ st'.bankIndex = 0)]_vars

\* the slots of a bank whose status is failed
FailedSlots(b) == {i \in Slots(b) : b[i].status = "failed"}

\* C18: a rejection with the current token for a generating slot marks that
\* slot failed, changes no other slot and removes no other request; as long
\* as the bank is the same, a failed slot never gets back a status that
\* findNextUnfinished selects, gets no new request and is never the slot the
\* index moves to
C18_FailedSlotIsLeftAlone ==
  [][/\ hist'.op = "respFailed" =>
          \E r \in reqs :
            /\ reqs' = reqs \ {r}
            /\ nx.bank[r.idx + 1].status = "generating"
            /\ nx'.bank = [nx.bank EXCEPT ![r.idx + 1].status = "failed"]
     /\ (SameBank(nx.bank, nx'.bank) /\ rf'.batchGenId = rf.batchGenId) =>
          \A i \in FailedSlots(nx.bank) :
            /\ nx'.bank[i].status \notin Unfinished
            /\ \A r \in reqs' \ reqs : r.idx # i - 1
            /\ nx'.bankIndex # nx.bankIndex => nx'.bankIndex # i - 1]_vars

\* C19: Skip aborts the request of sendPrompt that is in flight, sends no
\* POST, and the slot at the current index is skipped when the step is over;
\* the completion of an aborted request changes nothing on the page
C19_SkipCancelsManual ==
  [][/\ hist'.op = "skip" =>
          /\ posts' = posts
          /\ rf'.abort = 0
          /\ \A m \in manual : m.id = rf.abort => [m EXCEPT !.aborted = TRUE] \in manual'
          /\ Exists(st.bank, st.bankIndex) =>
               /\ SameBank(st.bank, st'.bank)
               /\ st'.bank[st.bankIndex + 1].status = "skipped"
     /\ hist'.op = "cancelled" => (nx' = nx /\ st' = st /\ posts' = posts /\ timers' = timers)]_vars

\* the slots of a bank whose status is skipped
SkippedSlots(b) == {i \in Slots(b) : b[i].status = "skipped"}

\* C20: without an LLM response submitLLMFailure sends nothing and does not
\* advance; the timer that calls advanceBank('skipped') is set only when the
\* failure POST has succeeded, and no slot becomes skipped while that POST is
\* being sent, is in flight or fails
C20_FailureReportThenSkip ==
  [][/\ ~st.shown.resp => Stays(submitLLMFailure(Comp))
     /\ \A t \in timers' \ timers :
          t.kind = "failure" =>
            (nx'.status = "saved" /\ \E p \in posts \ posts' : p.kind = "failure")
     /\ (\E p \in posts \cup posts' : p.kind = "failure") =>
          /\ SameBank(nx.bank, nx'.bank)
          /\ SkippedSlots(nx'.bank) = SkippedSlots(nx.bank)
          /\ nx'.bankIndex = nx.bankIndex]_vars

\* submitLLMFailure has just been called on a displayed result that has no
\* LLM response: nothing was sent and the slot is still being rated
C20_Witness ==
  /\ hist.op = "rejected" /\ nx.status = "noResponse"
  /\ st.shown # NoResult /\ ~st.shown.resp
  /\ posts = {} /\ ~nx.submitting
  /\ Exists(st.bank, st.bankIndex) /\ st.bank[st.bankIndex + 1].status = "rating"

\* C21: the continuation of generateNewBatch queues a bank with one
\* generating slot without result per fetched prompt, in the order fetched,
\* and index 0, and starts exactly one request per slot with the token of
\* that call; each call mints a token greater than all tokens before it
C21_InstallDispatchesAll ==
  [][/\ hist'.op = "install" =>
          \E f \in fetches \ fetches' :
            LET k == Len(nx'.bank) IN
            /\ k >= 1
            /\ \A i \in 1..k :
                 nx'.bank[i] = [prompt |-> PromptsOf(f.ser, k)[i], result |-> NoResult,
                                status |-> "generating"]
            /\ nx'.bankIndex = 0
            /\ reqs' \ reqs = {[gen |-> f.gen, idx |-> i - 1, prompt |-> nx'.bank[i].prompt] :
                                 i \in 1..k}
            /\ Cardinality(reqs' \ reqs) = k
     /\ \A f \in fetches' \ fetches :
          /\ f.gen > rf.batchGenId /\ f.gen <= rf'.batchGenId
          /\ \A g \in fetches' \ fetches : g.gen = f.gen => g = f
     /\ rf'.batchGenId >= rf.batchGenId]_vars

\* a bank of MaxBank prompts has just been installed by a call that was
\* overtaken, over a bank whose requests are still in flight
C21_Witness ==
  /\ hist.op = "install" /\ Len(nx.bank) = MaxBank /\ nx.bankIndex = 0
  /\ \E r \in reqs : r.gen < rf.batchGenId /\ r.idx = MaxBank - 1 /\ r.prompt = nx.bank[MaxBank].prompt
  /\ \E r \in reqs : r.prompt # nx.bank[r.idx + 1].prompt

\* the first index after i, going round the bank once, whose slot is
\* generating or ready; -1 when there is none
CyclicNext(b, i) ==
  LET n == Len(b)
      ds == {d \in 1..n : b[((i + d) % n) + 1].status \in Unfinished}
  IN IF ds = {} THEN -1 ELSE (i + Min(ds)) % n

\* C22: findNextUnfinished returns the first generating or ready slot in the
\* order i+1, ..., n-1, 0, ..., i and -1 exactly when there is none;
\* advanceBank queues that index with the prompt of its slot and no result,
\* or calls generateNewBatch when it is -1
C22_AdvanceTakesCyclicNext ==
  /\ \A i \in 0..(Len(rf.bank) - 1) :
       /\ findNextUnfinished(rf.bank, i) = CyclicNext(rf.bank, i)
       /\ findNextUnfinished(rf.bank, i) = -1
            <=> \A j \in 1..Len(rf.bank) : rf.bank[j].status \notin Unfinished
  /\ Exists(rf.bank, rf.bankIndex) =>
       \A markStatus \in {"rated", "skipped"} :
         LET updated == [rf.bank EXCEPT ![rf.bankIndex + 1].status = markStatus]
             next == CyclicNext(updated, rf.bankIndex)
             c == advanceBank(Comp, markStatus)
         IN /\ c.nx.bank = updated
            /\ next # -1 => /\ c.nx.bankIndex = next
                            /\ c.nx.currentPrompt = updated[next + 1].prompt
                            /\ c.nx.shown = NoResult
                            /\ c.gen = 0
            /\ next = -1 => c.gen = 1 /\ c.rf.batchGenId = rf.batchGenId + 1

\* Skip on the last slot of a bank of CallBank slots has just wrapped round to
\* slot 1, passing a finished slot 0
C22_Witness ==
  /\ hist.op = "skip" /\ Len(st.bank) = CallBank
  /\ st.bank[CallBank].status = "skipped" /\ st.bank[1].status = "rated"
  /\ st.bankIndex = 1

\* C23: on the Auto Prompt tab, while the slot at the current index is being
\* rated, the page displays the result and the prompt of that slot
C23_RatingSlotIsDisplayed ==
  (~st.freeTextMode /\ Exists(st.bank, st.bankIndex)
     /\ st.bank[st.bankIndex + 1].status = "rating")
    => /\ st.shown = st.bank[st.bankIndex + 1].result
       /\ st.currentPrompt = st.bank[st.bankIndex + 1].prompt

\* C24: once every fetch and every request has been answered and nothing is
\* left to render or to run, no slot of the bank on the page is generating
C24_GeneratingSlotsSettle ==
  (Quiescent /\ reqs = {}) => \A i \in Slots(st.bank) : st.bank[i].status # "generating"

\* C25: Submit Score never starts a rating (its score POST or the upload
\* before it) for a displayed result whose slot has already been rated
C25_OneRatingPerSlot ==
  [][(posts \ posts' = {} /\ ~st.freeTextMode
        /\ \E p \in posts' \ posts : p.kind \in {"score", "upload"})
       => ~\E i \in Slots(st.bank) :
             /\ st.bank[i].status = "rated"
             /\ st.bank[i].prompt = st.currentPrompt
             /\ st.bank[i].result = st.shown]_vars

\* the slots of the queued bank that the step has just marked rated or skipped
NewlyMarked ==
  {i \in Slots(nx'.bank) :
     /\ nx'.bank[i] # Undef /\ nx'.bank[i].status \in {"rated", "skipped"}
     /\ (i > Len(nx.bank) \/ nx.bank[i] = Undef \/ nx.bank[i].status # nx'.bank[i].status)}

\* C26: the advanceBank call that a timer makes after a saved score, a failure
\* report or a delete marks no slot but the one whose prompt the request was
\* sent for
C26_DeferredAdvanceMarksItsSlot ==
  [][\A t \in timers \ timers' :
       t.kind \in AdvanceKinds => \A i \in NewlyMarked : nx'.bank[i].prompt = t.prompt]_vars

\* the slots of a bank whose status is rating
RatingSlots(b) == {i \in Slots(b) : b[i] # Undef /\ b[i].status = "rating"}

\* C27: at most one slot of the bank is being rated, and it is the slot at the
\* current index
C27_OneRatingSlotAtIndex ==
  /\ Cardinality(RatingSlots(st.bank)) <= 1
  /\ \A i \in RatingSlots(st.bank) : i = st.bankIndex + 1

\* C28: when the POST of a rating or of a failure report is answered with an
\* error, no timer is set, the queued bank, the queued index and the refs
\* stay as they are, no batch is started, the status is the error message and
\* submitting is off again
C28_RejectedPostDoesNotAdvance ==
  [][\A p \in posts \ posts' :
       (p.kind \in {"score", "failure"} /\ nx'.status # "saved") =>
         /\ timers' = timers /\ posts' = posts \ {p}
         /\ nx'.bank = nx.bank /\ nx'.bankIndex = nx.bankIndex
         /\ rf' = rf /\ fetches' = fetches /\ reqs' = reqs
         /\ nx'.status = "error" /\ ~nx'.submitting
         /\ nx'.shown = nx.shown /\ nx'.currentPrompt = nx.currentPrompt]_vars

\* the POST of a submit has just been rejected: the slot is still being rated
\* and its result is still on the page
C28_Witness ==
  /\ st.submitting /\ ~nx.submitting /\ nx.status = "error"
  /\ posts = {} /\ timers = {}
  /\ Exists(nx.bank, nx.bankIndex) /\ nx.bank[nx.bankIndex + 1].status = "rating"
  /\ nx.shown = nx.bank[nx.bankIndex + 1].result /\ nx.shown # NoResult

\* C29: a prompt that advanceFromQueue has popped and made current is never
\* in promptQueue again, whatever the order in which the refills resolve
C29_PoppedNeverRequeued ==
  \A i \in DOMAIN qp.queue : qp.queue[i] \notin qp.popped

\* C30: while the current prompt is displayed without a result, a generation
\* for it is pending (in a pipeline's work list or in pregenInFlight) or its
\* result is stored in pregenResults
QPending(q, p) ==
  \/ p \in q.inflight
  \/ p \in q.results
  \/ \E k \in DOMAIN q.pipes : p \in Elems(q.pipes[k].list)

C30_CurrentPromptHasGeneration ==
  (qp.cur # 0 /\ qp.res = 0) => QPending(qp, qp.cur)
====
